---- MODULE Spec2Model ----
(***************************************************************************)
(* A model of VSDXExtractor (src/vsdx_extractor.py): one extractor object, *)
(* the scratch directories it creates, the files it writes and the results *)
(* it returns or the exceptions it raises.                                 *)
(*                                                                         *)
(* Strings are sequences of tokens.  A token is a piece of text that the   *)
(* code never looks inside: every substring the code searches for          *)
(* ('.xml', '}', 'PageSheet') is one whole token, and no other token       *)
(* contains any part of one.  The empty string is <<>>.                    *)
(***************************************************************************)
EXTENDS Integers, Sequences, FiniteSets, TLC

\* ------------------------------------------------------------------ bounds

\* extract_vsdx calls made on the one extractor in a behaviour
MaxCalls == 2

\* ----------------------------------------------------------------- strings

\* an optional value: <<>> is absent (None), <<v>> is the value v
None == <<>>
Some(v) == <<v>>

XML == ".xml"

\* s.endswith('.xml')
EndsWithXml(s) == Len(s) > 0 /\ s[Len(s)] = XML

\* s.replace('.xml', ''): every occurrence is removed
ReplaceXml(s) == SelectSeq(s, LAMBDA tok : tok # XML)

\* sub in s, for a one-token sub
Contains(s, sub) == \E i \in 1..Len(s) : s[i] = sub

\* the index of the last token equal to sub, 0 when there is none
LastIndexOf(s, sub) ==
  IF Contains(s, sub) THEN CHOOSE i \in 1..Len(s) : s[i] = sub /\ \A j \in (i+1)..Len(s) : s[j] # sub
  ELSE 0

\* tag.split('}')[-1] if '}' in tag else tag
LocalTag(tag) == IF Contains(tag, "}") THEN SubSeq(tag, LastIndexOf(tag, "}") + 1, Len(tag)) ELSE tag

\* --------------------------------------------------------------------- XML

\* The bytes of an XML part are a sequence of markup tokens.  A start tag
\* carries the element's tag in ElementTree's notation ({uri}local for a
\* namespaced element), its attributes and the text that follows it.
NoAttrib == [x \in {} |-> <<>>]
Open(tag, attrib, text) == [k |-> "open", tag |-> tag, attrib |-> attrib, text |-> text]
Close(tag) == [k |-> "close", tag |-> tag, attrib |-> NoAttrib, text |-> <<>>]
El(tag, attrib, text, inner) == <<Open(tag, attrib, text)>> \o inner \o <<Close(tag)>>

\* ET.parse: the elements in document order, each with the index of its
\* parent (0 for the root); ParseError for bytes that are not one
\* well-formed document (an unclosed or mismatched tag, no root, two roots)
ParseError == <<[error |-> "ParseError"]>>

RECURSIVE ParseFrom(_, _, _, _)
ParseFrom(bytes, i, stack, nodes) ==
  IF i > Len(bytes)
  THEN IF stack = <<>> /\ nodes # <<>> THEN nodes ELSE ParseError
  ELSE LET tok == bytes[i] IN
    IF tok.k = "open"
    THEN IF stack = <<>> /\ nodes # <<>>
         THEN ParseError
         ELSE ParseFrom(bytes, i + 1, Append(stack, Len(nodes) + 1),
                Append(nodes, [tag |-> tok.tag, attrib |-> tok.attrib, text |-> tok.text,
                               parent |-> IF stack = <<>> THEN 0 ELSE stack[Len(stack)]]))
    ELSE IF stack = <<>> \/ nodes[stack[Len(stack)]].tag # tok.tag
         THEN ParseError
         ELSE ParseFrom(bytes, i + 1, SubSeq(stack, 1, Len(stack) - 1), nodes)

Parse(bytes) == ParseFrom(bytes, 1, <<>>, <<>>)

Parses(bytes) == Parse(bytes) # ParseError

\* is element j strictly below element i
RECURSIVE IsBelow(_, _, _)
IsBelow(tree, j, i) ==
  IF j = 0 \/ tree[j].parent = 0 THEN FALSE
  ELSE tree[j].parent = i \/ IsBelow(tree, tree[j].parent, i)

\* elem.findall('.//*'): every element below elem, at any depth, in document order
FindAllBelow(tree, i) == SelectSeq([j \in 1..Len(tree) |-> j], LAMBDA j : IsBelow(tree, j, i))

\* elem.findall('.//Cell'): the elements below elem whose tag is exactly Cell
FindAllCells(tree, i) == SelectSeq(FindAllBelow(tree, i), LAMBDA j : tree[j].tag = <<"Cell">>)

\* for child in root: the immediate children of the root, in document order
Children(tree, i) == SelectSeq([j \in 1..Len(tree) |-> j], LAMBDA j : tree[j].parent = i)

\* elem.get(key, default)
Get(elem, key, default) == IF key \in DOMAIN elem.attrib THEN elem.attrib[key] ELSE default

\* a writer that writes the element itself and none of its content
SerializeShallow(tree, i) == El(tree[i].tag, tree[i].attrib, tree[i].text, <<>>)

\* tree.write(output_path, encoding='utf-8', xml_declaration=True): the
\* bytes written for a parsed tree, one start and one end tag per element
RECURSIVE Serialize(_, _)
Serialize(tree, i) ==
  LET kids == Children(tree, i)
      RECURSIVE Inner(_)
      Inner(n) == IF n > Len(kids) THEN <<>> ELSE Serialize(tree, kids[n]) \o Inner(n + 1)
  IN El(tree[i].tag, tree[i].attrib, tree[i].text, Inner(1))

\* --------------------------------------------------- the four extractors

\* a walk over every element below the root, as root.iter() would give,
\* instead of over its immediate children
AppPropertiesDeep(tree) ==
  LET withText == SelectSeq(FindAllBelow(tree, 1), LAMBDA j : tree[j].text # <<>>)
      keys == {LocalTag(tree[withText[n]].tag) : n \in 1..Len(withText)}
      last(key) == CHOOSE n \in 1..Len(withText) :
                     /\ LocalTag(tree[withText[n]].tag) = key
                     /\ \A m \in (n+1)..Len(withText) : LocalTag(tree[withText[m]].tag) # key
  IN [key \in keys |-> tree[withText[last(key)]].text]

\* _process_app_xml, lines 119-123: the immediate children of the root that
\* have text, keyed by local tag name; a later child replaces an earlier one
\* with the same key
AppProperties(tree) ==
  LET withText == SelectSeq(Children(tree, 1), LAMBDA j : tree[j].text # <<>>)
      keys == {LocalTag(tree[withText[n]].tag) : n \in 1..Len(withText)}
      last(key) == CHOOSE n \in 1..Len(withText) :
                     /\ LocalTag(tree[withText[n]].tag) = key
                     /\ \A m \in (n+1)..Len(withText) : LocalTag(tree[withText[m]].tag) # key
  IN [key \in keys |-> tree[withText[last(key)]].text]

\* _process_document_xml, lines 141-144
DocumentInfo(tree) == [root_tag |-> tree[1].tag, namespaces |-> tree[1].attrib]

\* a count of the root's direct children only, as findall('*') would give
ElementsCountChildren(tree) == Len(Children(tree, 1))

\* _process_single_page, line 176: len(root.findall('.//*'))
ElementsCount(tree) == Len(FindAllBelow(tree, 1))

\* a lookup without the outer break at line 188: every element whose tag
\* contains 'PageSheet' is searched until one has a PageName cell
PageSheetNameAnySheet(tree) ==
  LET cells == SelectSeq([j \in 1..Len(tree) |-> j],
                 LAMBDA j : /\ tree[j].tag = <<"Cell">>
                            /\ Get(tree[j], "N", None) = <<"PageName">>
                            /\ \E k \in 1..Len(tree) : Contains(tree[k].tag, "PageSheet") /\ IsBelow(tree, j, k))
  IN IF cells = <<>> THEN None ELSE Some(Get(tree[cells[1]], "V", <<"Unnamed">>))

\* _process_single_page, lines 181-188: the first element in document order
\* (root.iter() starts with the root) whose tag contains 'PageSheet', and in it
\* the first Cell with N="PageName"; None when the loops set no name
PageSheetName(tree) ==
  LET sheets == SelectSeq([j \in 1..Len(tree) |-> j], LAMBDA j : Contains(tree[j].tag, "PageSheet"))
      cells == IF sheets = <<>> THEN <<>>
               ELSE SelectSeq(FindAllCells(tree, sheets[1]),
                              LAMBDA j : Get(tree[j], "N", None) = <<"PageName">>)
  IN IF cells = <<>> THEN None ELSE Some(Get(tree[cells[1]], "V", <<"Unnamed">>))

\* _process_single_page, lines 190-191
FallbackName(page_filename) == ReplaceXml(page_filename)

\* a join that leaves out the extractor's subdirectory
PathFlat(output_dir, dir, name) == [root |-> output_dir, dir |-> "", name |-> name]

\* os.path.join(output_dir, dir, name): a path below an output root
Path(output_dir, dir, name) == [root |-> output_dir, dir |-> dir, name |-> name]

\* _process_single_page, lines 173-191: the page_info of a parsed page
PageInfo(tree, output_dir, page_filename) ==
  [filename |-> page_filename,
   output_path |-> Path(output_dir, "pages", page_filename),
   elements_count |-> ElementsCount(tree),
   root_tag |-> tree[1].tag,
   name |-> IF PageSheetName(tree) # None THEN PageSheetName(tree)[1] ELSE FallbackName(page_filename)]

\* ------------------------------------------------------------------ inputs

\* page documents
Cell(n, v) == El(<<"Cell">>, [N |-> n, V |-> v], <<>>, <<>>)
CellNoV(n) == El(<<"Cell">>, [N |-> n], <<>>, <<>>)
Leaf(tag) == El(tag, NoAttrib, <<>>, <<>>)
Sheet(inner) == El(<<"PageSheet">>, NoAttrib, <<>>, inner)

\* <PageContents/>
PgEmpty == Leaf(<<"PageContents">>)
\* a root with exactly three direct children and no grandchildren
PgThree == El(<<"PageContents">>, NoAttrib, <<>>,
              Leaf(<<"Shape">>) \o Leaf(<<"Shape">>) \o Leaf(<<"Connect">>))
\* two PageName cells in the page sheet, and a grandchild two levels down
PgNamed == El(<<"PageContents">>, NoAttrib, <<>>,
              Sheet(Cell(<<"PageWidth">>, <<"8.5">>) \o Cell(<<"PageName">>, <<"Foo">>)
                    \o Cell(<<"PageName">>, <<"Bar">>))
              \o El(<<"Shapes">>, NoAttrib, <<>>, Leaf(<<"Shape">>)))
\* <Cell N="PageName" V=""/>
PgEmptyV == El(<<"PageContents">>, NoAttrib, <<>>, Sheet(Cell(<<"PageName">>, <<>>)))
\* <Cell N="PageName"/>
PgNoV == El(<<"PageContents">>, NoAttrib, <<>>, Sheet(CellNoV(<<"PageName">>)))
\* every element in the namespace of a default xmlns on the root
Ns(local) == <<"{", "urn:visio", "}", local>>
PgNs == El(Ns("PageContents"), NoAttrib, <<>>,
           El(Ns("PageSheet"), NoAttrib, <<>>,
              El(Ns("Cell"), [N |-> <<"PageName">>, V |-> <<"Foo">>], <<>>, <<>>)))
\* a first element matching 'PageSheet' without a PageName cell, a later one with
PgTwoSheets == El(<<"PageContents">>, NoAttrib, <<>>,
                  El(<<"My", "PageSheet", "Ref">>, NoAttrib, <<>>, Cell(<<"PageWidth">>, <<"8.5">>))
                  \o Sheet(Cell(<<"PageName">>, <<"Foo">>)))
\* <PageContents><Shape></PageContents>: not well-formed
PgBad == <<Open(<<"PageContents">>, NoAttrib, <<>>), Open(<<"Shape">>, NoAttrib, <<>>),
           Close(<<"PageContents">>)>>

\* docProps/app.xml: children with and without text, a namespaced child, a
\* grandchild with text, two children with one local name
AppOk == El(Ns("Properties"), NoAttrib, <<>>,
            El(Ns("Application"), NoAttrib, <<"Microsoft Visio">>, <<>>)
            \o El(<<"Company">>, NoAttrib, <<>>, <<>>)
            \o El(<<"TitlesOfParts">>, NoAttrib, <<>>, El(<<"lpstr">>, NoAttrib, <<"Page-1">>, <<>>))
            \o El(<<"Application">>, NoAttrib, <<"Visio">>, <<>>))
AppBad == <<Open(<<"Properties">>, NoAttrib, <<>>)>>
\* visio/document.xml
DocOk == El(<<"VisioDocument">>, [N |-> <<"doc">>], <<>>, Leaf(<<"DocumentSettings">>))
DocBad == <<Close(<<"VisioDocument">>)>>
\* visio/masters/*.xml
MasterOk == El(<<"MasterContents">>, NoAttrib, <<>>, Leaf(<<"Shapes">>))

File(name, bytes) == [name |-> name, bytes |-> bytes]
\* a directory entry of the archive: absent, a regular file of that name, or a
\* directory holding files (in the order the archive lists them)
Absent == [kind |-> "absent", files |-> <<>>]
IsFile == [kind |-> "file", files |-> <<>>]
Dir(files) == [kind |-> "dir", files |-> files]

\* what is at vsdx_path: nothing, bytes that are no ZIP, or a ZIP archive with
\* its parts
Archive(id, app, doc, pages, masters) ==
  [id |-> id, exists |-> TRUE, zip |-> TRUE, app |-> app, doc |-> doc, pages |-> pages, masters |-> masters]
NoParts(id, exists) ==
  [id |-> id, exists |-> exists, zip |-> FALSE, app |-> None, doc |-> None, pages |-> Absent, masters |-> Absent]

ArMissing == NoParts("missing.vsdx", FALSE)
ArNotZip == NoParts("notzip.vsdx", TRUE)
ArEmpty == Archive("empty.vsdx", None, None, Absent, Absent)
ArFull == Archive("full.vsdx", Some(AppOk), Some(DocOk),
            Dir(<<File(<<"page1", XML>>, PgNamed), File(<<"page2", XML>>, PgThree),
                  File(<<"_rels">>, <<>>)>>),
            Dir(<<File(<<"master1", XML>>, MasterOk), File(<<"master2", XML>>, PgBad)>>))
ArBroken == Archive("broken.vsdx", Some(AppBad), Some(DocBad),
            Dir(<<File(<<"page1", XML>>, PgEmpty), File(<<"page2", XML>>, PgBad),
                  File(<<"page3", XML>>, PgTwoSheets)>>),
            Absent)
ArNames == Archive("names.vsdx", None, Some(DocOk),
            Dir(<<File(<<XML>>, PgEmpty), File(<<"a", XML, XML>>, PgNoV)>>), Absent)
ArEmptyV == Archive("emptyv.vsdx", None, None,
            Dir(<<File(<<"my", XML, "file", XML>>, PgEmptyV), File(<<"page1", XML>>, PgNs)>>), Absent)
ArDotted == Archive("dotted.vsdx", None, None,
            Dir(<<File(<<"a", XML, XML>>, PgEmpty), File(<<"my", XML, "file", XML>>, PgThree)>>), Absent)
ArPagesFile == Archive("pagesfile.vsdx", Some(AppOk), None, IsFile, Dir(<<File(<<"master1", XML>>, MasterOk)>>))
ArMastersFile == Archive("mastersfile.vsdx", None, None, Dir(<<File(<<"page1", XML>>, PgThree)>>), IsFile)

\* the arguments of one extract_vsdx call and the state of the output
\* location: the output paths that cannot be created or written
Request(archive, output_dir, unwritable) ==
  [archive |-> archive, output_dir |-> output_dir, unwritable |-> unwritable]

Requests ==
  { Request(ArMissing, "outA", {}),
    Request(ArNotZip, "outA", {}),
    Request(ArEmpty, "outB", {}),
    Request(ArFull, "outA", {}),
    Request(ArFull, "outB", {Path("outB", "pages", <<"page1", XML>>), Path("outB", "", <<"document", XML>>)}),
    Request(ArFull, "outB", {Path("outB", "masters", <<>>)}),
    Request(ArFull, "outA", {Path("outA", "", <<>>)}),
    Request(ArBroken, "outB", {}),
    Request(ArNames, "outA", {}),
    Request(ArNames, "outA", {Path("outA", "pages", <<>>)}),
    Request(ArEmptyV, "outB", {Path("outB", "", <<"app_properties", XML>>)}),
    Request(ArDotted, "outA", {}),
    Request(ArPagesFile, "outA", {}),
    Request(ArMastersFile, "outB", {}) }

\* ------------------------------------------------------------------- state

\* the threads that call the extractor; the sequential specification uses one
Threads == {"t1", "t2"}
SeqThreads == {"t1"}

VARIABLES
  extracted_data,  \* self.extracted_data
  pages_info,      \* self.pages_info
  temp_dir,        \* self.temp_dir: 0 is None, else the name of a scratch directory
  tmpfs,           \* the scratch directories that exist, each with what was extracted into it
  pc,              \* where each thread is in extract_vsdx
  call,            \* the arguments and locals of each thread's current (or last) call
  result,          \* what each thread's last call returned or raised
  alone,           \* what a fresh extractor holds at the same point of the same call
  returned,        \* what each thread's last successful result held when it was returned
  ncalls           \* calls begun so far

vars == <<extracted_data, pages_info, temp_dir, tmpfs, pc, call, result, alone, returned, ncalls>>

EmptyData == [app_properties |-> None, document_info |-> None]
EmptyScratch == [app |-> None, doc |-> None, pages |-> Absent, masters |-> Absent]
Fresh == [pages_info |-> <<>>, extracted_data |-> EmptyData]

\* what temp_dir holds: os.path.exists is false for everything in a directory
\* that does not exist
Scratch(d) == IF d \in DOMAIN tmpfs THEN tmpfs[d] ELSE EmptyScratch

\* tempfile.mkdtemp(): a directory name not in use
NewTmp == CHOOSE n \in 1..(Cardinality(DOMAIN tmpfs) + 1) :
            n \notin DOMAIN tmpfs /\ \A m \in 1..(n - 1) : m \in DOMAIN tmpfs

\* shutil.rmtree(d)
RmTree(fs, d) == [x \in (DOMAIN fs) \ {d} |-> fs[x]]

\* the results of a call
NoResult == [kind |-> "none", keys |-> {}, success |-> FALSE, error |-> <<>>, output_dir |-> ""]
\* lines 63-68; 'pages' and 'extracted_data' are the objects self.pages_info
\* and self.extracted_data themselves, not copies
SuccessResult(output_dir) ==
  [kind |-> "returned", keys |-> {"success", "output_dir", "pages", "extracted_data"},
   success |-> TRUE, error |-> <<>>, output_dir |-> output_dir]
\* lines 72-75
FailureResult(e) ==
  [kind |-> "returned", keys |-> {"success", "error"}, success |-> FALSE, error |-> e, output_dir |-> ""]
\* an exception that leaves extract_vsdx
Raised(e) == [kind |-> "raised", keys |-> {}, success |-> FALSE, error |-> e, output_dir |-> ""]

\* req: the arguments; made: the directory mkdtemp gave this call; tdir: the
\* temp_dir argument of _process_extracted_files; todo: the page files the loop
\* has still to take; exc: the exception caught at line 70; outputs: what the
\* call has created under its output root
NoCall == [req |-> Request(ArEmpty, "outA", {}), made |-> 0, tdir |-> 0, todo |-> <<>>, exc |-> None,
           outputs |-> {}]

Init ==
  /\ extracted_data = EmptyData
  /\ pages_info = <<>>
  /\ temp_dir = 0
  /\ tmpfs = [x \in {} |-> EmptyScratch]
  /\ pc = [t \in Threads |-> "idle"]
  /\ call = [t \in Threads |-> NoCall]
  /\ result = [t \in Threads |-> NoResult]
  /\ alone = [t \in Threads |-> Fresh]
  /\ returned = [t \in Threads |-> None]
  /\ ncalls = 0

\* tree.write(output_path, ...): the file and its bytes, added to what the call wrote
Written(outputs, path, tree) == outputs \cup {[path |-> path, dir |-> FALSE, bytes |-> Serialize(tree, 1)]}
\* os.makedirs(path, exist_ok=True)
MadeDir(outputs, path) == outputs \cup {[path |-> path, dir |-> TRUE, bytes |-> <<>>]}

\* lines 42-52: the checks, the output directory and the scratch directory
Begin(t) ==
  /\ pc[t] = "idle"
  /\ ncalls < MaxCalls
  /\ \E req \in Requests :
       LET root == Path(req.output_dir, "", <<>>)
           started == [NoCall EXCEPT !.req = req] IN
       /\ ncalls' = ncalls + 1
       /\ alone' = [alone EXCEPT ![t] = Fresh]
       /\ IF ~req.archive.exists
          THEN /\ result' = [result EXCEPT ![t] = Raised(<<"VSDX file not found: ", req.archive.id>>)]
               /\ call' = [call EXCEPT ![t] = started]
               /\ UNCHANGED <<temp_dir, tmpfs, pc>>
          ELSE IF root \in req.unwritable
          THEN /\ result' = [result EXCEPT ![t] = Raised(<<"[Errno 13] Permission denied">>)]
               /\ call' = [call EXCEPT ![t] = started]
               /\ UNCHANGED <<temp_dir, tmpfs, pc>>
          ELSE /\ temp_dir' = NewTmp
               /\ tmpfs' = [x \in (DOMAIN tmpfs) \cup {NewTmp} |-> IF x = NewTmp THEN EmptyScratch ELSE tmpfs[x]]
               /\ call' = [call EXCEPT ![t] = [started EXCEPT !.made = NewTmp, !.outputs = MadeDir({}, root)]]
               /\ pc' = [pc EXCEPT ![t] = "extract"]
               /\ UNCHANGED result
  /\ UNCHANGED <<extracted_data, pages_info, returned>>

\* the entry of a directory with a given name, None when there is none
Lookup(part_dir, name) ==
  IF part_dir.kind # "dir" THEN None
  ELSE LET found == SelectSeq(part_dir.files, LAMBDA f : f.name = name)
       IN IF found = <<>> THEN None ELSE Some(found[1])

\* extractall into a directory: a member replaces the file of the same name,
\* and what else the directory holds stays
ExtractDir(old, new) ==
  IF new.kind = "absent" THEN old
  ELSE IF old.kind # "dir" \/ new.kind # "dir" THEN new
  ELSE Dir(new.files \o SelectSeq(old.files, LAMBDA f : Lookup(new, f.name) = None))

ExtractAll(old, a) ==
  [app |-> IF a.app = None THEN old.app ELSE a.app,
   doc |-> IF a.doc = None THEN old.doc ELSE a.doc,
   pages |-> ExtractDir(old.pages, a.pages),
   masters |-> ExtractDir(old.masters, a.masters)]

\* lines 55-61: zipfile.ZipFile(vsdx_path) and extractall(self.temp_dir);
\* bytes that are no ZIP raise BadZipFile, caught at line 70
Extract(t) ==
  /\ pc[t] = "extract"
  /\ LET a == call[t].req.archive IN
     IF ~a.zip
     THEN /\ call' = [call EXCEPT ![t].exc = Some(<<"File is not a zip file">>)]
          /\ pc' = [pc EXCEPT ![t] = "finally"]
          /\ UNCHANGED tmpfs
     ELSE /\ tmpfs' = [x \in (DOMAIN tmpfs) \cup {temp_dir} |->
                         IF x = temp_dir THEN ExtractAll(Scratch(temp_dir), a) ELSE tmpfs[x]]
          /\ call' = [call EXCEPT ![t].tdir = temp_dir]
          /\ pc' = [pc EXCEPT ![t] = "app"]
  /\ UNCHANGED <<extracted_data, pages_info, temp_dir, result, alone, returned, ncalls>>

\* a part is extracted when it is there, its bytes parse and its output file
\* can be written; anything else raises inside the extractor's try block
Extractable(part, req, path) == part # None /\ Parses(part[1]) /\ path \notin req.unwritable

\* _process_app_xml, lines 108-128, on the extractor's data
process_app_xml(data, fs, req) ==
  IF Extractable(fs.app, req, Path(req.output_dir, "", <<"app_properties", XML>>))
  THEN [data EXCEPT !.app_properties = Some(AppProperties(Parse(fs.app[1])))]
  ELSE data

\* _process_document_xml, lines 130-149, on the extractor's data
process_document_xml(data, fs, req) ==
  IF Extractable(fs.doc, req, Path(req.output_dir, "", <<"document", XML>>))
  THEN [data EXCEPT !.document_info = Some(DocumentInfo(Parse(fs.doc[1])))]
  ELSE data

\* _process_single_page, lines 162-197, on the extractor's page list; file is
\* what page_path holds when ET.parse opens it, None when it is gone
process_single_page(pages, file, req) ==
  IF file # None /\ Extractable(Some(file[1].bytes), req, Path(req.output_dir, "pages", file[1].name))
  THEN Append(pages, PageInfo(Parse(file[1].bytes), req.output_dir, file[1].name))
  ELSE pages

\* the file a part extractor writes, when it gets that far
PartOutput(outputs, part, req, path) ==
  IF Extractable(part, req, path) THEN Written(outputs, path, Parse(part[1])) ELSE outputs

\* lines 89-92
ProcessApp(t) ==
  /\ pc[t] = "app"
  /\ LET fs == Scratch(call[t].tdir)
         req == call[t].req IN
     /\ extracted_data' = process_app_xml(extracted_data, fs, req)
     /\ alone' = [alone EXCEPT ![t].extracted_data = process_app_xml(@, fs, req)]
     /\ call' = [call EXCEPT ![t].outputs =
                   PartOutput(@, fs.app, req, Path(req.output_dir, "", <<"app_properties", XML>>))]
  /\ pc' = [pc EXCEPT ![t] = "doc"]
  /\ UNCHANGED <<pages_info, temp_dir, tmpfs, result, returned, ncalls>>

\* lines 94-97
ProcessDoc(t) ==
  /\ pc[t] = "doc"
  /\ LET fs == Scratch(call[t].tdir)
         req == call[t].req IN
     /\ extracted_data' = process_document_xml(extracted_data, fs, req)
     /\ alone' = [alone EXCEPT ![t].extracted_data = process_document_xml(@, fs, req)]
     /\ call' = [call EXCEPT ![t].outputs =
                   PartOutput(@, fs.doc, req, Path(req.output_dir, "", <<"document", XML>>))]
  /\ pc' = [pc EXCEPT ![t] = "pages"]
  /\ UNCHANGED <<pages_info, temp_dir, tmpfs, result, returned, ncalls>>

\* os.listdir(d): the entries of a directory, in an order the file system chooses
ListDir(files) ==
  {[i \in 1..Len(files) |-> files[p[i]]] :
     p \in {q \in [1..Len(files) -> 1..Len(files)] : \A i, j \in 1..Len(files) : q[i] = q[j] => i = j}}

\* line 156: [f for f in os.listdir(pages_dir) if f.endswith('.xml')]
XmlFiles(listing) == SelectSeq(listing, LAMBDA f : EndsWithXml(f.name))

\* an exception in extract_vsdx's try block: caught at line 70
Fail(t, e) ==
  /\ call' = [call EXCEPT ![t].exc = Some(e)]
  /\ pc' = [pc EXCEPT ![t] = "finally"]

\* lines 99-101 and _process_pages, lines 153-156: makedirs and listdir are
\* outside any try block of their own
ProcessPages(t) ==
  /\ pc[t] = "pages"
  /\ LET fs == Scratch(call[t].tdir)
         req == call[t].req
         pages_output_dir == Path(req.output_dir, "pages", <<>>) IN
     IF fs.pages.kind = "absent"
     THEN /\ pc' = [pc EXCEPT ![t] = "masters"]
          /\ UNCHANGED call
     ELSE IF pages_output_dir \in req.unwritable
     THEN Fail(t, <<"[Errno 13] Permission denied">>)
     ELSE IF fs.pages.kind = "file"
     THEN /\ call' = [call EXCEPT ![t].exc = Some(<<"[Errno 20] Not a directory">>),
                                  ![t].outputs = MadeDir(@, pages_output_dir)]
          /\ pc' = [pc EXCEPT ![t] = "finally"]
     ELSE \E listing \in ListDir(fs.pages.files) :
            /\ call' = [call EXCEPT ![t].todo = [i \in 1..Len(XmlFiles(listing)) |-> XmlFiles(listing)[i].name],
                                    ![t].outputs = MadeDir(@, pages_output_dir)]
            /\ pc' = [pc EXCEPT ![t] = IF XmlFiles(listing) = <<>> THEN "masters" ELSE "page"]
  /\ UNCHANGED <<extracted_data, pages_info, temp_dir, tmpfs, result, alone, returned, ncalls>>

\* _process_pages, lines 158-160: one turn of the loop
ProcessSinglePage(t) ==
  /\ pc[t] = "page"
  /\ LET req == call[t].req
         page_file == Head(call[t].todo)
         file == Lookup(Scratch(call[t].tdir).pages, page_file) IN
     /\ pages_info' = process_single_page(pages_info, file, req)
     /\ alone' = [alone EXCEPT ![t].pages_info = process_single_page(@, file, req)]
     /\ call' = [call EXCEPT ![t].todo = Tail(@),
                             ![t].outputs = PartOutput(@, IF file = None THEN None ELSE Some(file[1].bytes),
                                                       req, Path(req.output_dir, "pages", page_file))]
     /\ pc' = [pc EXCEPT ![t] = IF Tail(call[t].todo) = <<>> THEN "masters" ELSE "page"]
  /\ UNCHANGED <<extracted_data, temp_dir, tmpfs, result, returned, ncalls>>

\* a loop whose try block encloses the for statement: the first master that
\* fails ends the loop
RECURSIVE MasterOutputsStopAtFailure(_, _, _)
MasterOutputsStopAtFailure(outputs, files, req) ==
  IF files = <<>> THEN outputs
  ELSE IF ~Extractable(Some(Head(files).bytes), req, Path(req.output_dir, "masters", Head(files).name))
  THEN outputs
  ELSE MasterOutputsStopAtFailure(PartOutput(outputs, Some(Head(files).bytes), req,
                                             Path(req.output_dir, "masters", Head(files).name)),
                                  Tail(files), req)

\* _process_masters, lines 206-218: the files the loop writes
RECURSIVE MasterOutputs(_, _, _)
MasterOutputs(outputs, files, req) ==
  IF files = <<>> THEN outputs
  ELSE MasterOutputs(PartOutput(outputs, Some(Head(files).bytes), req,
                                Path(req.output_dir, "masters", Head(files).name)),
                     Tail(files), req)

\* lines 103-106 and _process_masters, lines 199-218
ProcessMasters(t) ==
  /\ pc[t] = "masters"
  /\ LET fs == Scratch(call[t].tdir)
         req == call[t].req
         masters_output_dir == Path(req.output_dir, "masters", <<>>) IN
     IF fs.masters.kind = "absent"
     THEN /\ pc' = [pc EXCEPT ![t] = "finally"]
          /\ UNCHANGED call
     ELSE IF masters_output_dir \in req.unwritable
     THEN Fail(t, <<"[Errno 13] Permission denied">>)
     ELSE IF fs.masters.kind = "file"
     THEN /\ call' = [call EXCEPT ![t].exc = Some(<<"[Errno 20] Not a directory">>),
                                  ![t].outputs = MadeDir(@, masters_output_dir)]
          /\ pc' = [pc EXCEPT ![t] = "finally"]
     ELSE \E listing \in ListDir(fs.masters.files) :
            /\ call' = [call EXCEPT ![t].outputs =
                          MasterOutputs(MadeDir(@, masters_output_dir), XmlFiles(listing), req)]
            /\ pc' = [pc EXCEPT ![t] = "finally"]
  /\ UNCHANGED <<extracted_data, pages_info, temp_dir, tmpfs, result, alone, returned, ncalls>>

\* a cleanup placed after the try block's normal end instead of in finally
CleanupOnSuccessOnly(fs, d, exc) == IF exc = None /\ d # 0 /\ d \in DOMAIN fs THEN RmTree(fs, d) ELSE fs

\* lines 76-79: if self.temp_dir and os.path.exists(self.temp_dir): rmtree
Cleanup(fs, d, exc) == IF d # 0 /\ d \in DOMAIN fs THEN RmTree(fs, d) ELSE fs

\* an except block that logs the error and falls through to the normal return
ReturnValueSwallowed(req, exc) == SuccessResult(req.output_dir)

\* lines 63-75: the value the call returns
ReturnValue(req, exc) == IF exc = None THEN SuccessResult(req.output_dir) ELSE FailureResult(exc[1])

\* the return statement (line 63 or 72), then the finally block, then the
\* caller has the result
Finally(t) ==
  /\ pc[t] = "finally"
  /\ tmpfs' = Cleanup(tmpfs, temp_dir, call[t].exc)
  /\ result' = [result EXCEPT ![t] = ReturnValue(call[t].req, call[t].exc)]
  /\ returned' = IF ReturnValue(call[t].req, call[t].exc).success
                 THEN [returned EXCEPT ![t] = Some([pages_info |-> pages_info, extracted_data |-> extracted_data])]
                 ELSE returned
  /\ pc' = [pc EXCEPT ![t] = "idle"]
  /\ UNCHANGED <<extracted_data, pages_info, temp_dir, call, alone, ncalls>>

\* get_extraction_summary, lines 220-228
get_extraction_summary ==
  [total_pages |-> Len(pages_info),
   pages |-> pages_info,
   has_app_properties |-> extracted_data.app_properties # None,
   has_document_info |-> extracted_data.document_info # None,
   extracted_data |-> extracted_data]

\* a result holding a copy of the page list made at the return statement
ResultPagesCopied(t) == returned[t][1].pages_info

\* result['pages'] and result['extracted_data'] of a successful result: the
\* extractor's own list and dict (lines 66-67), so what they hold now
ResultPages(t) == pages_info
ResultData(t) == extracted_data

Step(t) ==
  \/ Begin(t)
  \/ Extract(t)
  \/ ProcessApp(t)
  \/ ProcessDoc(t)
  \/ ProcessPages(t)
  \/ ProcessSinglePage(t)
  \/ ProcessMasters(t)
  \/ Finally(t)

\* one caller: each call runs to its end before the next begins
Next == \E t \in SeqThreads : Step(t)

Spec == Init /\ [][Next]_vars

\* the calls that two callers make
ConcRequests ==
  { Request(ArFull, "outA", {}),
    Request(ArEmpty, "outB", {}),
    Request(ArMastersFile, "outB", {}) }

\* calls in progress at the same time are on different archives and have
\* different output directories
Apart ==
  /\ \A t \in Threads : pc[t] # "idle" => call[t].req \in ConcRequests
  /\ \A t, u \in Threads :
       (t # u /\ pc[t] # "idle" /\ pc[u] # "idle") =>
         /\ call[t].req.archive.id # call[u].req.archive.id
         /\ call[t].req.output_dir # call[u].req.output_dir

\* two callers of one extractor: the statements of their calls interleave
NextConc == \E t \in Threads : Step(t) /\ Apart'

SpecConc == Init /\ [][NextConc]_vars

\* ------------------------------------------------------------------ claims

\* thread t's last call is over and the caller has its outcome
Over(t) == pc[t] = "idle" /\ result[t].kind # "none"
Returned(t) == pc[t] = "idle" /\ result[t].kind = "returned"
ArchiveOf(t) == call[t].req.archive
ValidZip(t) == ArchiveOf(t).exists /\ ArchiveOf(t).zip

\* the page parts of an archive: the .xml entries of its visio/pages directory
PageParts(a) == XmlFiles(a.pages.files)
WellFormedParts(a) == SelectSeq(PageParts(a), LAMBDA f : Parses(f.bytes))

\* C1: the pages and extracted_data of every successful result, and of the
\* summary taken right after it, are what a fresh extractor would hold after
\* that call alone.
C1_NoStateSurvives ==
  \A t \in Threads :
    (Returned(t) /\ result[t].success) =>
      /\ ResultPages(t) = alone[t].pages_info
      /\ ResultData(t) = alone[t].extracted_data
      /\ get_extraction_summary.pages = alone[t].pages_info
      /\ get_extraction_summary.total_pages = Len(alone[t].pages_info)
      /\ get_extraction_summary.extracted_data = alone[t].extracted_data

\* C2 as stated: a file that is no ZIP gives success=false, a non-empty error
\* and a result whose page sequence is there and empty.
C2_NonZipEmptyPages ==
  \A t \in Threads :
    (Over(t) /\ ArchiveOf(t).exists /\ ~ArchiveOf(t).zip) =>
      /\ result[t].kind = "returned" /\ ~result[t].success /\ result[t].error # <<>>
      /\ "pages" \in result[t].keys /\ ResultPages(t) = <<>>

\* C2 amended: a file that is no ZIP gives a returned result with success=false
\* and a non-empty error, and the result has no page sequence at all: its only
\* keys are 'success' and 'error'.
C2_NonZipFailure ==
  \A t \in Threads :
    (Over(t) /\ ArchiveOf(t).exists /\ ~ArchiveOf(t).zip) =>
      /\ result[t].kind = "returned" /\ ~result[t].success /\ result[t].error # <<>>
      /\ result[t].keys = {"success", "error"}

C2_Witness ==
  \E t \in Threads : Returned(t) /\ ArchiveOf(t).exists /\ ~ArchiveOf(t).zip /\ pages_info # <<>>

\* C3: a call on a path that does not exist is over with a returned result
\* (not an exception) that has success=false and an error message.
C3_NotFoundReturned ==
  \A t \in Threads :
    (Over(t) /\ ~ArchiveOf(t).exists) =>
      /\ result[t].kind = "returned"
      /\ ~result[t].success
      /\ result[t].error # <<>>

\* C4: a call on a valid ZIP that returns, returns success=true, whatever parts
\* are missing, malformed or unwritable.
C4_ValidZipSucceeds ==
  \A t \in Threads : (Returned(t) /\ ValidZip(t)) => result[t].success

\* C5: when a call is over, the scratch directory it created is gone, and
\* with no call in progress no scratch directory is left.
C5_ScratchReleased ==
  /\ \A t \in Threads : pc[t] = "idle" => call[t].made \notin DOMAIN tmpfs
  /\ (\A t \in Threads : pc[t] = "idle") => DOMAIN tmpfs = {}

\* a call that created a scratch directory, extracted into it and failed in
\* part processing is over
C5_Witness ==
  \E t \in Threads :
    Returned(t) /\ call[t].made # 0 /\ ValidZip(t) /\ ~result[t].success /\ call[t].outputs # {}

\* C6: a successful result for an archive whose N page parts are all
\* well-formed (and all writable) has exactly N pages.
C6_AllPagesCounted ==
  \A t \in Threads :
    (/\ Returned(t) /\ result[t].success
     /\ WellFormedParts(ArchiveOf(t)) = PageParts(ArchiveOf(t))
     /\ call[t].req.unwritable = {})
    => Len(ResultPages(t)) = Len(PageParts(ArchiveOf(t)))

\* C7: every page summary in the page sequence has a non-empty name.
C7_NameNonEmpty == \A i \in 1..Len(pages_info) : pages_info[i].name # <<>>

\* C8: for an archive with N page parts of which k >= 1 are malformed (and all
\* are writable) the call succeeds and its result has exactly N-k pages.
C8_MalformedOmitted ==
  \A t \in Threads :
    (/\ Returned(t) /\ ValidZip(t)
     /\ ArchiveOf(t).pages.kind = "dir"
     /\ Len(WellFormedParts(ArchiveOf(t))) < Len(PageParts(ArchiveOf(t)))
     /\ call[t].req.unwritable = {})
    => /\ result[t].success
       /\ Len(ResultPages(t)) = Len(WellFormedParts(ArchiveOf(t)))

\* C9: after a call on a valid ZIP without docProps/app.xml the call has
\* succeeded, extracted_data has no app_properties key and the summary's
\* has_app_properties is false.
C9_NoAppProperties ==
  \A t \in Threads :
    (Returned(t) /\ ValidZip(t) /\ ArchiveOf(t).app = None) =>
      /\ result[t].success
      /\ ResultData(t).app_properties = None
      /\ ~get_extraction_summary.has_app_properties

\* the start tags in the bytes of a part: one per element
StartTags(bytes) == Len(SelectSeq(bytes, LAMBDA tok : tok.k = "open"))

\* C10: whenever a page summary is appended, its element count is the number
\* of elements of the page document other than the root: 3 for the root with
\* three childless children, 0 for the root without children.
C10_ElementCount ==
  [][\A t \in Threads :
       (pc[t] = "page" /\ Len(pages_info') = Len(pages_info) + 1) =>
         LET bytes == Lookup(Scratch(call[t].tdir).pages, Head(call[t].todo))[1].bytes
             count == pages_info'[Len(pages_info')].elements_count IN
         /\ count = StartTags(bytes) - 1
         /\ bytes = PgThree => count = 3
         /\ bytes = PgEmpty => count = 0]_vars

\* the page sequence holds a page with grandchildren, the page with three
\* childless children and the page with no children
C10_Witness ==
  /\ \E i \in 1..Len(pages_info) : pages_info[i].elements_count = 6
  /\ \E i \in 1..Len(pages_info) : pages_info[i].elements_count = 3
  /\ \E i \in 1..Len(pages_info) : pages_info[i].elements_count = 0

\* thread t's step appends a page summary: the page file it took and the
\* summary it appended
Appends(t) == pc[t] = "page" /\ Len(pages_info') = Len(pages_info) + 1
TakenFile(t) == Lookup(Scratch(call[t].tdir).pages, Head(call[t].todo))[1]
NewPage == pages_info'[Len(pages_info')]

\* the elements of a page document, as the bytes give them: one per start tag
Elements(bytes) == SelectSeq(bytes, LAMBDA tok : tok.k = "open")
IsPageNameCell(tok) ==
  LocalTag(tok.tag) = <<"Cell">> /\ "N" \in DOMAIN tok.attrib /\ tok.attrib["N"] = <<"PageName">>

\* the PageName cells of the page-sheet element of a parsed page: the cells,
\* whatever their namespace, below the first element whose tag contains
\* PageSheet
SheetNameCells(tree) ==
  LET sheets == SelectSeq([j \in 1..Len(tree) |-> j], LAMBDA j : Contains(tree[j].tag, "PageSheet"))
  IN IF sheets = <<>> THEN <<>>
     ELSE SelectSeq([j \in 1..Len(tree) |-> j],
                    LAMBDA j : IsBelow(tree, j, sheets[1]) /\ IsPageNameCell(tree[j]))

\* C11: when the first PageName cell of a page's page-sheet element has a V
\* attribute, the appended summary's name is that V, whatever later PageName
\* cells say.
C11_FirstPageNameWins ==
  [][\A t \in Threads :
       Appends(t) =>
         LET tree == Parse(TakenFile(t).bytes)
             cells == SheetNameCells(tree) IN
         (cells # <<>> /\ "V" \in DOMAIN tree[cells[1]].attrib) =>
           NewPage.name = tree[cells[1]].attrib["V"]]_vars

\* C12: when a page document has no PageName cell at all, the appended
\* summary's name is the file name without its last '.xml' and otherwise intact.
C12_FallbackStripsExtension ==
  [][\A t \in Threads :
       Appends(t) =>
         LET name == TakenFile(t).name
             cells == SelectSeq(Elements(TakenFile(t).bytes), IsPageNameCell) IN
         cells = <<>> => NewPage.name = SubSeq(name, 1, Len(name) - 1)]_vars

\* a document with the namespace taken off every tag
StripNs(bytes) == [i \in 1..Len(bytes) |-> [bytes[i] EXCEPT !.tag = LocalTag(@)]]

\* C13: a page document and the same document without its namespace give the
\* same page name and element count, and an app-properties document and the
\* same document without its namespace give the same properties.
C13_NamespaceInsensitive ==
  [][\A t \in Threads :
       /\ Appends(t) =>
            LET plain == PageInfo(Parse(StripNs(TakenFile(t).bytes)), call[t].req.output_dir,
                                  TakenFile(t).name) IN
            /\ NewPage.name = plain.name
            /\ NewPage.elements_count = plain.elements_count
       /\ (pc[t] = "app" /\ extracted_data'.app_properties # extracted_data.app_properties) =>
            extracted_data'.app_properties
              = Some(AppProperties(Parse(StripNs(Scratch(call[t].tdir).app[1]))))]_vars

\* the files a directory extractor of its own would write for request req:
\* one for each .xml file of the part directory that parses and whose output
\* can be written, when the extractor's output directory can be made
OwnOutputs(part_dir, dir, req) ==
  IF part_dir.kind # "dir" \/ Path(req.output_dir, dir, <<>>) \in req.unwritable THEN {}
  ELSE {Path(req.output_dir, dir, f.name) :
          f \in {g \in {part_dir.files[i] : i \in 1..Len(part_dir.files)} :
                   /\ EndsWithXml(g.name)
                   /\ Extractable(Some(g.bytes), req, Path(req.output_dir, dir, g.name))}}

\* C14: once a call on a valid archive has returned, the pages extractor and
\* the masters extractor have each contributed every output they can produce
\* themselves, whatever failed in the extractors before them.
C14_FailureIsolation ==
  \A t \in Threads :
    (Returned(t) /\ ValidZip(t)) =>
      \A path \in OwnOutputs(ArchiveOf(t).pages, "pages", call[t].req)
                    \cup OwnOutputs(ArchiveOf(t).masters, "masters", call[t].req) :
        \E o \in call[t].outputs : o.path = path /\ ~o.dir

\* C16: what a successful result held when it was returned is what it holds
\* ever after: its page sequence and its extracted_data mapping do not change.
C16_ResultNotMutated ==
  \A t \in Threads :
    returned[t] # None =>
      /\ ResultPages(t) = returned[t][1].pages_info
      /\ ResultData(t) = returned[t][1].extracted_data

\* C17: when a page summary is appended, the file written at its output_path
\* parses again, to a tree with the summary's root_tag and the summary's count
\* of descendant elements.
C17_RoundTrip ==
  [][\A t \in Threads :
       Appends(t) =>
         /\ \E o \in call'[t].outputs : o.path = NewPage.output_path /\ ~o.dir
         /\ \A o \in call'[t].outputs :
              (o.path = NewPage.output_path /\ ~o.dir) =>
                /\ Parses(o.bytes)
                /\ Parse(o.bytes)[1].tag = NewPage.root_tag
                /\ ElementsCount(Parse(o.bytes)) = NewPage.elements_count]_vars

\* a call has rewritten and summarised two pages with nested elements
C17_Witness ==
  \E t \in Threads :
    /\ \E o \in call[t].outputs :
         /\ ~o.dir /\ o.path.dir = "pages" /\ Len(o.bytes) = 14
         /\ \E i \in 1..Len(pages_info) : pages_info[i].output_path = o.path /\ pages_info[i].elements_count = 6
    /\ \E o \in call[t].outputs :
         /\ ~o.dir /\ o.path.dir = "pages" /\ Len(o.bytes) = 8
         /\ \E i \in 1..Len(pages_info) : pages_info[i].output_path = o.path /\ pages_info[i].elements_count = 3

C19_AppProperties ==
  [][\A t \in Threads :
       pc[t] = "app" =>
         LET app == Scratch(call[t].tdir).app
             req == call[t].req IN
         /\ Extractable(app, req, Path(req.output_dir, "", <<"app_properties", XML>>)) =>
              LET tree == Parse(app[1])
                  kids == {j \in 1..Len(tree) : tree[j].parent = 1 /\ tree[j].text # <<>>} IN
              /\ extracted_data'.app_properties # None
              /\ LET props == extracted_data'.app_properties[1] IN
                 /\ DOMAIN props = {LocalTag(tree[j].tag) : j \in kids}
                 /\ \A key \in DOMAIN props :
                      \E j \in kids : LocalTag(tree[j].tag) = key /\ props[key] = tree[j].text
         /\ (app # None /\ ~Parses(app[1])) => extracted_data' = extracted_data]_vars

\* the properties of an app.xml with a namespaced child, a child without text
\* and a grandchild with text have been recorded
C19_Witness ==
  \E t \in Threads :
    /\ pc[t] = "doc"
    /\ Scratch(call[t].tdir).app = Some(AppOk)
    /\ extracted_data.app_properties # None
    /\ DOMAIN extracted_data.app_properties[1] = {<<"Application">>}

\* C20: the masters step of a call leaves the page sequence and the
\* extracted_data mapping as they were, and when the masters directory can be
\* made and listed, every master file that parses and can be written has been
\* written, whatever happened to the other master files.
C20_MastersPassThrough ==
  [][\A t \in Threads :
       pc[t] = "masters" =>
         /\ pages_info' = pages_info
         /\ extracted_data' = extracted_data
         /\ call'[t].exc = None =>
              \A path \in OwnOutputs(Scratch(call[t].tdir).masters, "masters", call[t].req) :
                \E o \in call'[t].outputs : o.path = path /\ ~o.dir]_vars

\* the masters step has run over one master that parses and one that does
\* not, after pages were summarised: the first was written, the second not
C20_Witness ==
  \E t \in Threads :
    /\ pc[t] = "finally" /\ call[t].exc = None
    /\ pages_info # <<>>
    /\ \E o \in call[t].outputs : o.path = Path(call[t].req.output_dir, "masters", <<"master1", XML>>)
    /\ \E i \in 1..Len(ArchiveOf(t).masters.files) :
         /\ ~Parses(ArchiveOf(t).masters.files[i].bytes)
         /\ \A o \in call[t].outputs : o.path.name # ArchiveOf(t).masters.files[i].name \/ o.path.dir # "masters"

\* C15: with two callers on different archives and output directories, each
\* call extracts into the scratch directory it made itself, and the only
\* scratch directory its finally block removes is that one.
C15_OwnScratchOnly ==
  [][\A t \in Threads :
       /\ (pc[t] = "extract" /\ pc'[t] = "app") => call'[t].tdir = call[t].made
       /\ pc[t] = "finally" => \A d \in (DOMAIN tmpfs) \ (DOMAIN tmpfs') : d = call[t].made]_vars

\* C21: when the first element of a page whose tag contains PageSheet (the
\* root included) has no PageName cell below it, the appended summary's name
\* is the fallback made from the file name, whatever later elements matching
\* PageSheet hold.
C21_FirstSheetOnly ==
  [][\A t \in Threads :
       Appends(t) =>
         LET tree == Parse(TakenFile(t).bytes)
             sheets == SelectSeq([j \in 1..Len(tree) |-> j], LAMBDA j : Contains(tree[j].tag, "PageSheet")) IN
         (sheets # <<>> /\ SheetNameCells(tree) = <<>>) =>
           NewPage.name = FallbackName(TakenFile(t).name)]_vars

\* a page whose first PageSheet-matching element has no PageName cell and
\* whose second has one was summarised under its file name
C21_Witness ==
  \E t \in Threads : \E i \in 1..Len(pages_info) :
    /\ Lookup(ArchiveOf(t).pages, pages_info[i].filename) = Some(File(pages_info[i].filename, PgTwoSheets))
    /\ pages_info[i].output_path.root = call[t].req.output_dir
    /\ pages_info[i].name = <<"page3">>

\* what a step of thread t creates under output roots
Created(t) == call'[t].outputs \ call[t].outputs

\* C22: every step of a call creates only what belongs to its extractor: the
\* app-properties step output_dir/app_properties.xml, the document-info step
\* output_dir/document.xml, the pages steps the directory output_dir/pages and
\* files directly in it named as the page files are, the masters step the
\* directory output_dir/masters and files directly in it named as the master
\* files are; extraction changes no scratch directory but the call's own.
C22_OwnLocationOnly ==
  [][\A t \in Threads :
       LET out == call[t].req.output_dir
           masters == Scratch(call[t].tdir).masters IN
       /\ \A o \in Created(t) : pc[t] # "idle" => o.path.root = out
       /\ pc[t] = "app" =>
            \A o \in Created(t) : ~o.dir /\ o.path.dir = "" /\ o.path.name = <<"app_properties", XML>>
       /\ pc[t] = "doc" =>
            \A o \in Created(t) : ~o.dir /\ o.path.dir = "" /\ o.path.name = <<"document", XML>>
       /\ pc[t] = "pages" =>
            \A o \in Created(t) : o.dir /\ o.path.dir = "pages" /\ o.path.name = <<>>
       /\ pc[t] = "page" =>
            \A o \in Created(t) : ~o.dir /\ o.path.dir = "pages" /\ o.path.name = Head(call[t].todo)
       /\ pc[t] = "masters" =>
            \A o \in Created(t) :
              /\ o.path.dir = "masters"
              /\ IF o.dir THEN o.path.name = <<>> ELSE Lookup(masters, o.path.name) # None
       /\ pc[t] \in {"extract", "finally"} => Created(t) = {}
       /\ pc[t] = "extract" =>
            \A d \in DOMAIN tmpfs' : d # call[t].made => d \in DOMAIN tmpfs /\ tmpfs'[d] = tmpfs[d]]_vars

\* a call in which all four extractors have written their output
C22_Witness ==
  \E t \in Threads :
    /\ pc[t] = "finally"
    /\ \E o \in call[t].outputs : o.path.dir = "" /\ o.path.name = <<"app_properties", XML>>
    /\ \E o \in call[t].outputs : o.path.dir = "" /\ o.path.name = <<"document", XML>>
    /\ \E o \in call[t].outputs : ~o.dir /\ o.path.dir = "pages"
    /\ \E o \in call[t].outputs : ~o.dir /\ o.path.dir = "masters"

\* the place of the entry called name in a directory listing of the archive
Pos(files, name) == CHOOSE i \in 1..Len(files) : files[i].name = name

\* the page summaries that thread t's last call added: the end of the page
\* sequence, as long as what a fresh extractor would hold
OwnPages(t) ==
  SubSeq(ResultPages(t), Len(ResultPages(t)) - Len(alone[t].pages_info) + 1, Len(ResultPages(t)))

\* C23: in a successful result, the summaries of the call's pages stand in
\* the order in which the archive lists the page parts.
C23_ArchiveOrder ==
  \A t \in Threads :
    (Returned(t) /\ result[t].success) =>
      \A i, j \in 1..Len(OwnPages(t)) :
        i < j => Pos(ArchiveOf(t).pages.files, OwnPages(t)[i].filename)
                   < Pos(ArchiveOf(t).pages.files, OwnPages(t)[j].filename)

\* C24: when a call has returned success=false, a fresh extractor making that
\* call holds what it held before, no pages and no data, and after a first
\* call that failed the summary reports no pages, no app properties and no
\* document info.
C24_FailureLeavesState ==
  \A t \in Threads :
    (Returned(t) /\ ~result[t].success) =>
      /\ alone[t] = Fresh
      /\ ncalls = 1 =>
           /\ get_extraction_summary.total_pages = 0
           /\ ~get_extraction_summary.has_app_properties
           /\ ~get_extraction_summary.has_document_info

\* C25: for every page summary of a successful result, the call that returned
\* it has written the file at the summary's output_path, which is the
\* summary's filename in the pages directory of the call's output root, and
\* no summary stands for a file that could not be written.
C25_SummaryAfterWrite ==
  \A t \in Threads :
    (Returned(t) /\ result[t].success) =>
      \A i \in 1..Len(ResultPages(t)) :
        LET page == ResultPages(t)[i] IN
        /\ \E o \in call[t].outputs : ~o.dir /\ o.path = page.output_path
        /\ page.output_path.root = call[t].req.output_dir
        /\ page.output_path.dir = "pages"
        /\ page.output_path.name = page.filename
        /\ page.output_path \notin call[t].req.unwritable

====
